---------------------------- MODULE Spec2Model ----------------------------
(***************************************************************************)
(* Model of raspberry_pi_buttons.py: PhysicalButtonController.             *)
(*                                                                         *)
(* Threads.  The main thread runs __main__ (constructor, run(), the idle   *)
(* loop, cleanup).  Each GPIO channel has a callback that the GPIO library *)
(* invokes on its own thread of execution; a callback is modelled line by  *)
(* line (read clock, compare, store, build body + POST, response), so the  *)
(* two channels' callbacks and the main thread interleave.                 *)
(*                                                                         *)
(* Time.  time.time() is the variable clock, counted in ticks of 100 ms;   *)
(* debounce_time = 0.3 s is 3 ticks.  The clock never goes back.  The      *)
(* process starts at StartClock, a wall-clock value far from the epoch.    *)
(*                                                                         *)
(* bouncetime=300 (lines 38, 40) is a filter inside the GPIO library, ahead*)
(* of the callbacks.  The model lets the library invoke a callback at any  *)
(* time, which includes every sequence the filter lets through.            *)
(*                                                                         *)
(* Specifications.                                                         *)
(*   Spec     the whole process from line 113 on: construction, health     *)
(*            check, idle loop, interrupts, cleanup, and the callbacks.    *)
(*   SeqSpec  a constructed controller whose handlers are invoked one      *)
(*            after the other (each returns before the next edge).         *)
(*   ConcSpec a constructed controller whose two handlers run concurrently.*)
(***************************************************************************)
EXTENDS Integers, Sequences, FiniteSets

VARIABLES
    clock,            \* time.time(), in ticks of 100 ms
    last_press_time,  \* self.last_press_time (Unset before line 24 ran)
    detect,           \* edge detection registered (lines 37-40) and not cleaned up
    mpc,              \* main thread: position in __main__ / run()
    cleanups,         \* number of calls of GPIO.cleanup()
    sigs,             \* history: main-thread positions at which KeyboardInterrupt was raised
    health,           \* history: outcome of the GET /health ("none" before it returned)
    cb,               \* per channel: position and locals of the running callback
    edges,            \* history: number of callback invocations so far
    log,              \* history: one record per callback invocation (edge)
    lastAccepted,     \* history: latest callback time among the accepted edges (0: none)
    posts,            \* history: the HTTP POSTs issued, in order
    cbExc             \* history: edges whose callback let an exception escape

vars == <<clock, last_press_time, detect, mpc, cleanups, sigs, health, cb, edges, log,
          lastAccepted, posts, cbExc>>

-----------------------------------------------------------------------------
(* Bounds of the model *)

StartClock == 4
MaxTicks == 4
MaxProcTicks == 1
MaxSeqEdges == 3
MaxConcEdges == 2
MaxProcEdges == 1
MaxInterrupts == 1

(* Program constants *)

\* self.debounce_time = 0.3 (seconds), in ticks
debounce_time == 3
\* self.last_press_time = 0
SentinelNow == StartClock
Sentinel == 0
\* the attribute self.last_press_time does not exist yet
Unset == -1

BUTTON_1 == 1
BUTTON_2 == 2
Channels == {BUTTON_1, BUTTON_2}

Outcomes == {"200", "other", "transport"}

IdleCb == [pc |-> "idle", current_time |-> 0, edge |-> 0]

-----------------------------------------------------------------------------
(* Helpers *)

Alive == mpc \notin {"returned", "raised"}

AllIdle == \A c \in Channels : cb[c].pc = "idle"

InFlight(e) == \E c \in Channels : cb[c].pc # "idle" /\ cb[c].edge = e

Decided(e) == log[e].verdict # "pending"

Done(e) == Decided(e) /\ ~InFlight(e)

PostsOf(e) == {i \in 1..Len(posts) : posts[i].edge = e}

\* line 47 / 55:  current_time - self.last_press_time > self.debounce_time
AcceptsShort(now, last) == now - last > debounce_time - 2
Accepts(now, last) == now - last > debounce_time

-----------------------------------------------------------------------------
(* The clock *)

Tick ==
    /\ clock < StartClock + MaxTicks
    /\ clock' = clock + 1
    /\ UNCHANGED <<last_press_time, detect, mpc, cleanups, sigs, health, cb, edges, log,
                   lastAccepted, posts, cbExc>>

-----------------------------------------------------------------------------
(* Edge callbacks: button_1_callback / button_2_callback, send_button_press *)

\* The library invokes the callback of channel ch; line 46 / 54 reads the clock.
Deliver(ch) ==
    /\ Alive /\ detect
    /\ cb[ch].pc = "idle"
    /\ edges' = edges + 1
    /\ cb' = [cb EXCEPT ![ch] = [pc |-> "check", current_time |-> clock,
                                 edge |-> edges + 1]]
    /\ log' = Append(log, [ch |-> ch, t |-> clock, verdict |-> "pending",
                           prev |-> 0, lpt |-> Unset])
    /\ UNCHANGED <<clock, last_press_time, detect, mpc, cleanups, sigs, health,
                   lastAccepted, posts, cbExc>>

\* line 47 / 55 with the store of line 48 / 56 hoisted above the comparison:
\* a suppressed edge restarts the window as well.
CheckExtends(ch) ==
    /\ Alive
    /\ cb[ch].pc = "check"
    /\ LET e == cb[ch].edge
           now == cb[ch].current_time
       IN  IF last_press_time = Unset
           THEN /\ cbExc' = cbExc \cup {e}
                /\ log' = [log EXCEPT ![e].verdict = "error"]
                /\ cb' = [cb EXCEPT ![ch] = IdleCb]
                /\ UNCHANGED <<lastAccepted, last_press_time>>
           ELSE IF Accepts(now, last_press_time)
           THEN /\ log' = [log EXCEPT ![e].verdict = "accepted",
                                      ![e].prev = lastAccepted,
                                      ![e].lpt = last_press_time]
                /\ lastAccepted' = IF now > lastAccepted THEN now ELSE lastAccepted
                /\ cb' = [cb EXCEPT ![ch].pc = "write"]
                /\ UNCHANGED <<cbExc, last_press_time>>
           ELSE /\ log' = [log EXCEPT ![e].verdict = "rejected",
                                      ![e].prev = lastAccepted,
                                      ![e].lpt = last_press_time]
                /\ last_press_time' = now
                /\ cb' = [cb EXCEPT ![ch] = IdleCb]
                /\ UNCHANGED <<lastAccepted, cbExc>>
    /\ UNCHANGED <<clock, detect, mpc, cleanups, sigs, health, edges, posts>>

\* line 47 / 55: the debounce comparison.
Check(ch) ==
    /\ Alive
    /\ cb[ch].pc = "check"
    /\ LET e == cb[ch].edge
           now == cb[ch].current_time
       IN  IF last_press_time = Unset
           THEN \* AttributeError: the callback ends with an exception
                /\ cbExc' = cbExc \cup {e}
                /\ log' = [log EXCEPT ![e].verdict = "error"]
                /\ cb' = [cb EXCEPT ![ch] = IdleCb]
                /\ UNCHANGED lastAccepted
           ELSE IF Accepts(now, last_press_time)
           THEN /\ log' = [log EXCEPT ![e].verdict = "accepted",
                                      ![e].prev = lastAccepted,
                                      ![e].lpt = last_press_time]
                /\ lastAccepted' = IF now > lastAccepted THEN now ELSE lastAccepted
                /\ cb' = [cb EXCEPT ![ch].pc = "write"]
                /\ UNCHANGED cbExc
           ELSE /\ log' = [log EXCEPT ![e].verdict = "rejected",
                                      ![e].prev = lastAccepted,
                                      ![e].lpt = last_press_time]
                /\ cb' = [cb EXCEPT ![ch] = IdleCb]
                /\ UNCHANGED <<lastAccepted, cbExc>>
    /\ UNCHANGED <<clock, last_press_time, detect, mpc, cleanups, sigs, health, edges, posts>>

\* line 48 / 56: self.last_press_time = current_time
WriteSkipped(ch) ==
    /\ Alive
    /\ cb[ch].pc = "write"
    /\ cb' = [cb EXCEPT ![ch].pc = "send"]
    /\ UNCHANGED <<clock, last_press_time, detect, mpc, cleanups, sigs, health, edges, log,
                   lastAccepted, posts, cbExc>>

Write(ch) ==
    /\ Alive
    /\ cb[ch].pc = "write"
    /\ last_press_time' = cb[ch].current_time
    /\ cb' = [cb EXCEPT ![ch].pc = "send"]
    /\ UNCHANGED <<clock, detect, mpc, cleanups, sigs, health, edges, log,
                   lastAccepted, posts, cbExc>>

\* lines 50 / 58 and 62-69: send_button_press(ch) builds the body, reading the
\* clock again, and issues the POST.
Send(ch) ==
    /\ Alive
    /\ cb[ch].pc = "send"
    /\ posts' = Append(posts, [button |-> ch, timestamp |-> clock,
                               edge |-> cb[ch].edge, outcome |-> "pending"])
    /\ cb' = [cb EXCEPT ![ch].pc = "post"]
    /\ UNCHANGED <<clock, last_press_time, detect, mpc, cleanups, sigs, health, edges, log,
                   lastAccepted, cbExc>>

\* The in-flight POST of channel ch.
PostIndex(ch) == CHOOSE i \in 1..Len(posts) :
                    posts[i].edge = cb[ch].edge /\ posts[i].outcome = "pending"

\* lines 69-76: the POST returns a status or raises RequestException, which
\* line 75 catches; send_button_press and the callback return.
PostReturnsRaises(ch) ==
    /\ Alive
    /\ cb[ch].pc = "post"
    /\ \E o \in Outcomes :
         /\ posts' = [posts EXCEPT ![PostIndex(ch)].outcome = o]
         /\ cbExc' = IF o = "transport" THEN cbExc \cup {cb[ch].edge} ELSE cbExc
    /\ cb' = [cb EXCEPT ![ch] = IdleCb]
    /\ UNCHANGED <<clock, last_press_time, detect, mpc, cleanups, sigs, health, edges, log,
                   lastAccepted>>

PostReturnsRetry(ch) ==
    /\ Alive
    /\ cb[ch].pc = "post"
    /\ \E o \in Outcomes :
         IF o = "200"
         THEN /\ posts' = [posts EXCEPT ![PostIndex(ch)].outcome = o]
              /\ cb' = [cb EXCEPT ![ch] = IdleCb]
         ELSE /\ posts' = Append([posts EXCEPT ![PostIndex(ch)].outcome = o],
                                 [button |-> ch, timestamp |-> clock,
                                  edge |-> cb[ch].edge, outcome |-> "200"])
              /\ cb' = [cb EXCEPT ![ch] = IdleCb]
    /\ UNCHANGED <<clock, last_press_time, detect, mpc, cleanups, sigs, health, edges, log,
                   lastAccepted, cbExc>>

\* lines 75-76 undoing line 48 / 56 when the delivery failed.
PostReturnsRollback(ch) ==
    /\ Alive
    /\ cb[ch].pc = "post"
    /\ \E o \in Outcomes :
         /\ posts' = [posts EXCEPT ![PostIndex(ch)].outcome = o]
         /\ last_press_time' = IF o = "transport" THEN log[cb[ch].edge].lpt
                                                  ELSE last_press_time
    /\ cb' = [cb EXCEPT ![ch] = IdleCb]
    /\ UNCHANGED <<clock, detect, mpc, cleanups, sigs, health, edges, log,
                   lastAccepted, cbExc>>

PostReturns(ch) ==
    /\ Alive
    /\ cb[ch].pc = "post"
    /\ \E o \in Outcomes :
         posts' = [posts EXCEPT ![PostIndex(ch)].outcome = o]
    /\ cb' = [cb EXCEPT ![ch] = IdleCb]
    /\ UNCHANGED <<clock, last_press_time, detect, mpc, cleanups, sigs, health, edges, log,
                   lastAccepted, cbExc>>

-----------------------------------------------------------------------------
(* Main thread: __main__, __init__, setup_gpio, run, check_connection, cleanup *)

cbVars == <<cb, edges, log, lastAccepted, posts, cbExc>>

\* lines 113, 22, 29-42: setup_gpio succeeds; both callbacks are registered.
SetupGpio ==
    /\ mpc = "main"
    /\ detect' = TRUE
    /\ mpc' = "init"
    /\ UNCHANGED <<clock, last_press_time, cleanups, sigs, health>>
    /\ UNCHANGED cbVars

\* lines 22, 29-40: a GPIO call raises; nothing catches it, the process ends.
SetupGpioFails ==
    /\ mpc = "main"
    /\ mpc' = "raised"
    /\ UNCHANGED <<clock, last_press_time, detect, cleanups, sigs, health>>
    /\ UNCHANGED cbVars

\* lines 23-25: the fields are assigned after setup_gpio returned.
InitFields ==
    /\ mpc = "init"
    /\ last_press_time' = Sentinel
    /\ mpc' = "run"
    /\ UNCHANGED <<clock, detect, cleanups, sigs, health>>
    /\ UNCHANGED cbVars

\* lines 114, 84-90, 102-103: run() prints, enters the try block, calls
\* check_connection, which issues the GET /health.
RunStart ==
    /\ mpc = "run"
    /\ mpc' = "cc_get"
    /\ UNCHANGED <<clock, last_press_time, detect, cleanups, sigs, health>>
    /\ UNCHANGED cbVars

\* lines 103-109 without the except clause: an exception of the GET leaves
\* check_connection and run()'s try block; only the finally clause runs.
CheckConnectionResponseRaises ==
    /\ mpc = "cc_get"
    /\ \E r \in Outcomes :
         /\ health' = r
         /\ mpc' = IF r = "transport" THEN "finally_exc" ELSE "cc_log"
    /\ UNCHANGED <<clock, last_press_time, detect, cleanups, sigs>>
    /\ UNCHANGED cbVars

\* lines 103-109: the GET returns a status (200 or other), or raises.
CheckConnectionResponse ==
    /\ mpc = "cc_get"
    /\ \E r \in Outcomes :
         /\ health' = r
         /\ mpc' = IF r = "transport" THEN "cc_except" ELSE "cc_log"
    /\ UNCHANGED <<clock, last_press_time, detect, cleanups, sigs>>
    /\ UNCHANGED cbVars

\* lines 105 / 107 / 109-110, then line 92: the outcome is printed,
\* check_connection returns and run() enters the idle loop.
CheckConnectionReturn ==
    /\ mpc \in {"cc_log", "cc_except"}
    /\ mpc' = "loop"
    /\ UNCHANGED <<clock, last_press_time, detect, cleanups, sigs, health>>
    /\ UNCHANGED cbVars

\* line 93 joining the callbacks before it sleeps.
SleepWaits ==
    /\ mpc = "loop"
    /\ AllIdle
    /\ mpc' = "sleep"
    /\ UNCHANGED <<clock, last_press_time, detect, cleanups, sigs, health>>
    /\ UNCHANGED cbVars

\* lines 92-93: one iteration of the idle loop: enter time.sleep(0.1), wake up.
Sleep ==
    /\ mpc = "loop"
    /\ mpc' = "sleep"
    /\ UNCHANGED <<clock, last_press_time, detect, cleanups, sigs, health>>
    /\ UNCHANGED cbVars

Wake ==
    /\ mpc = "sleep"
    /\ mpc' = "loop"
    /\ UNCHANGED <<clock, last_press_time, detect, cleanups, sigs, health>>
    /\ UNCHANGED cbVars

\* Where a KeyboardInterrupt raised at main-thread position p takes control.
\*   main, init, run : lines 113, 22-25, 84-86 are outside every try block
\*   cc_get, cc_log  : inside check_connection's try; the bare except (108) catches it
\*   cc_except       : inside the handler 109-110; propagates to run()'s except (95)
\*   loop, sleep     : inside run()'s try; caught at line 95
\*   except          : inside the handler (96); the finally clause still runs
\*   finally(_exc)   : before GPIO.cleanup() was called; propagates out of run()
InterruptTarget(p) ==
    CASE p \in {"main", "init", "run"}      -> "raised"
      [] p \in {"cc_get", "cc_log"}         -> "cc_except"
      [] p = "cc_except"                    -> "except"
      [] p \in {"loop", "sleep"}            -> "except"
      [] p = "except"                       -> "finally_exc"
      [] p \in {"finally", "finally_exc"}   -> "raised"

\* SIGINT: Python raises KeyboardInterrupt in the main thread.
Interrupt ==
    /\ Alive
    /\ Len(sigs) < MaxInterrupts
    /\ sigs' = Append(sigs, mpc)
    /\ mpc' = InterruptTarget(mpc)
    /\ UNCHANGED <<clock, last_press_time, detect, cleanups, health>>
    /\ UNCHANGED cbVars

\* lines 95-97: the handler prints and falls through to the finally clause.
ExceptHandler ==
    /\ mpc = "except"
    /\ mpc' = "finally"
    /\ UNCHANGED <<clock, last_press_time, detect, cleanups, sigs, health>>
    /\ UNCHANGED cbVars

\* lines 97-98, 78-80: the finally clause calls cleanup(), GPIO.cleanup()
\* removes the edge detection; run() returns, or re-raises what is pending.
CleanupSkipped ==
    /\ mpc \in {"finally", "finally_exc"}
    /\ mpc' = IF mpc = "finally" THEN "returned" ELSE "raised"
    /\ UNCHANGED <<clock, last_press_time, detect, cleanups, sigs, health>>
    /\ UNCHANGED cbVars

Cleanup ==
    /\ mpc \in {"finally", "finally_exc"}
    /\ cleanups' = cleanups + 1
    /\ detect' = FALSE
    /\ mpc' = IF mpc = "finally" THEN "returned" ELSE "raised"
    /\ UNCHANGED <<clock, last_press_time, sigs, health>>
    /\ UNCHANGED cbVars

-----------------------------------------------------------------------------
(* Specifications *)

\* The process before line 113 runs.
Init ==
    /\ clock = StartClock
    /\ last_press_time = Unset
    /\ detect = FALSE
    /\ mpc = "main"
    /\ cleanups = 0
    /\ sigs = <<>>
    /\ health = "none"
    /\ cb = [c \in Channels |-> IdleCb]
    /\ edges = 0
    /\ log = <<>>
    /\ lastAccepted = 0
    /\ posts = <<>>
    /\ cbExc = {}

\* The whole process is followed for MaxProcEdges edges and MaxProcTicks ticks.
DeliverProc(ch) == edges < MaxProcEdges /\ Deliver(ch)

TickProc == clock < StartClock + MaxProcTicks /\ Tick

Next ==
    \/ TickProc
    \/ SetupGpio
    \/ SetupGpioFails
    \/ InitFields
    \/ RunStart
    \/ CheckConnectionResponse
    \/ CheckConnectionReturn
    \/ Sleep
    \/ Wake
    \/ Interrupt
    \/ ExceptHandler
    \/ Cleanup
    \/ \E ch \in Channels : DeliverProc(ch)
    \/ \E ch \in Channels : Check(ch)
    \/ \E ch \in Channels : Write(ch)
    \/ \E ch \in Channels : Send(ch)
    \/ \E ch \in Channels : PostReturns(ch)

Spec == Init /\ [][Next]_vars

\* A constructed controller (line 113 done) whose handlers are invoked one
\* after the other: an edge is delivered only when no callback is running.
InitSeq ==
    /\ clock = StartClock
    /\ last_press_time = Sentinel
    /\ detect = TRUE
    /\ mpc = "run"
    /\ cleanups = 0
    /\ sigs = <<>>
    /\ health = "none"
    /\ cb = [c \in Channels |-> IdleCb]
    /\ edges = 0
    /\ log = <<>>
    /\ lastAccepted = 0
    /\ posts = <<>>
    /\ cbExc = {}

DeliverSeq(ch) == edges < MaxSeqEdges /\ AllIdle /\ Deliver(ch)

NextSeq ==
    \/ Tick
    \/ \E ch \in Channels : DeliverSeq(ch)
    \/ \E ch \in Channels : Check(ch)
    \/ \E ch \in Channels : Write(ch)
    \/ \E ch \in Channels : Send(ch)
    \/ \E ch \in Channels : PostReturns(ch)

SeqSpec == InitSeq /\ [][NextSeq]_vars

\* A constructed controller whose two handlers run concurrently: the steps of
\* the two channels' callbacks interleave.
DeliverConc(ch) == edges < MaxConcEdges /\ Deliver(ch)

NextConc ==
    \/ Tick
    \/ \E ch \in Channels : DeliverConc(ch)
    \/ \E ch \in Channels : Check(ch)
    \/ \E ch \in Channels : Write(ch)
    \/ \E ch \in Channels : Send(ch)
    \/ \E ch \in Channels : PostReturns(ch)

ConcSpec == InitSeq /\ [][NextConc]_vars

-----------------------------------------------------------------------------
(* Properties *)

Edges == 1..Len(log)

Posts == 1..Len(posts)

\* The callback of edge e is at one of the positions pcs.
At(e, pcs) == \E c \in Channels : cb[c].edge = e /\ cb[c].pc \in pcs

Accepted(e) == log[e].verdict = "accepted"

Rejected(e) == log[e].verdict = "rejected"

\* Edge e was compared (line 47 / 55) when some edge had been accepted before.
HasPrev(e) == Decided(e) /\ log[e].verdict # "error" /\ log[e].prev # 0

\* C1: with the handlers invoked one after the other, in any mix of channels,
\* an edge whose callback time is less than 300 ms after the callback time of
\* the most recently accepted edge is suppressed: its callback returns without
\* calling send_button_press, and no POST is issued for it.
C1_DebounceSuppresses ==
    \A e \in Edges :
        (HasPrev(e) /\ log[e].t - log[e].prev < debounce_time)
            => /\ Rejected(e)
               /\ ~InFlight(e)
               /\ PostsOf(e) = {}

\* A press on one channel suppressed by an accepted press on the other channel.
C1_Witness ==
    \E e \in Edges : \E f \in Edges :
        /\ f < e /\ Accepted(f) /\ log[f].ch # log[e].ch
        /\ Rejected(e) /\ log[e].prev = log[f].t
        /\ log[e].t - log[e].prev < debounce_time
        /\ Done(e) /\ PostsOf(e) = {}

\* C2 as stated: every edge whose callback time is at least 300 ms (exactly
\* 300 ms included) after the latest accepted edge is accepted.
C2_Original ==
    \A e \in Edges :
        (HasPrev(e) /\ log[e].t - log[e].prev >= debounce_time) => Accepted(e)

\* C2 amended: with the handlers invoked one after the other, every edge whose
\* callback time is more than 300 ms after the callback time of the most
\* recently accepted edge is accepted: its callback stores its time in
\* last_press_time (where it stays until the next accepted edge) and calls
\* send_button_press, which issues one POST.  Exactly 300 ms is not enough.
C2_SpacedEdgesAccepted ==
    \A e \in Edges :
        (HasPrev(e) /\ log[e].t - log[e].prev > debounce_time)
            => /\ Accepted(e)
               /\ (/\ Done(e) \/ At(e, {"send", "post"})
                   /\ \A f \in Edges : f > e => ~Accepted(f))
                      => last_press_time = log[e].t
               /\ (Done(e) \/ At(e, {"post"})) => Cardinality(PostsOf(e)) = 1

\* An edge 400 ms after the latest accepted one was accepted, stored and sent.
C2_Witness ==
    \E e \in Edges :
        /\ HasPrev(e) /\ log[e].t - log[e].prev > debounce_time
        /\ Accepted(e) /\ Done(e)
        /\ last_press_time = log[e].t
        /\ Cardinality(PostsOf(e)) = 1

\* C3: the first edge compared on a constructed controller (no edge accepted
\* before it, last_press_time still the sentinel) is accepted and sent,
\* whatever the clock shows at that moment.
C3_FirstEdgeAccepted ==
    \A e \in Edges :
        (Decided(e) /\ log[e].verdict # "error" /\ log[e].prev = 0)
            => /\ Accepted(e)
               /\ Done(e) => Cardinality(PostsOf(e)) = 1

\* The first edge arrived some ticks after the start and was accepted and sent.
C3_Witness ==
    /\ Len(log) >= 1
    /\ log[1].t > StartClock
    /\ Accepted(1) /\ log[1].prev = 0 /\ Done(1)
    /\ Cardinality(PostsOf(1)) = 1

\* C4 as stated: a press on channel 1 that is accepted, followed less than
\* 300 ms later by a press on channel 2, gives exactly one POST, with
\* button = 1, in every interleaving of the two callbacks.
C4_Original ==
    \A e \in Edges : \A f \in Edges :
        (/\ e < f /\ log[e].ch = BUTTON_1 /\ log[f].ch = BUTTON_2
         /\ Accepted(e)
         /\ log[f].t - log[e].t < debounce_time)
            => /\ ~Accepted(f)
               /\ PostsOf(f) = {}

\* C5 as stated: the timestamps of any two POSTs of the same channel differ
\* by more than 300 ms.
C5_Original ==
    \A i \in Posts : \A j \in Posts :
        (i < j /\ posts[i].button = posts[j].button)
            => posts[j].timestamp - posts[i].timestamp > debounce_time

\* C6: a POST that fails at transport level ends inside send_button_press: no
\* exception leaves the callback, the callback returns, the process is alive,
\* and an edge delivered later whose time is more than 300 ms after the stored
\* last_press_time is accepted and sent.
C6_TransportFailureContained ==
    \A i \in Posts :
        posts[i].outcome = "transport"
            => /\ posts[i].edge \notin cbExc
               /\ Done(posts[i].edge)
               /\ Alive
               /\ \A e \in Edges :
                    (/\ e > posts[i].edge /\ Decided(e)
                     /\ log[e].t - log[e].lpt > debounce_time)
                        => /\ Accepted(e)
                           /\ Done(e) => Cardinality(PostsOf(e)) = 1

\* After a transport failure a later edge was accepted and its POST answered.
C6_Witness ==
    \E i \in Posts : \E j \in Posts :
        /\ posts[i].outcome = "transport"
        /\ posts[j].edge > posts[i].edge
        /\ posts[j].outcome = "200"
        /\ Done(posts[j].edge)

\* C7: POSTs are issued for accepted edges only and carry the edge's channel
\* as button; no edge has more than one POST; an accepted edge whose callback
\* has returned has exactly one POST, whatever its outcome.
C7_ExactlyOnePost ==
    /\ \A i \in Posts : /\ posts[i].edge \in Edges
                        /\ Accepted(posts[i].edge)
                        /\ posts[i].button = log[posts[i].edge].ch
    /\ \A e \in Edges : Cardinality(PostsOf(e)) <= 1
    /\ \A e \in Edges :
         (Accepted(e) /\ Done(e))
            => \E i \in Posts : /\ PostsOf(e) = {i}
                                /\ posts[i].outcome \in Outcomes

\* Two accepted edges, one POST each: one got a non-200 status, one failed.
C7_Witness ==
    \E e \in Edges : \E f \in Edges :
        /\ e # f /\ Accepted(e) /\ Accepted(f) /\ Done(e) /\ Done(f)
        /\ \E i \in PostsOf(e) : posts[i].outcome = "other" /\ posts[i].button = log[e].ch
        /\ \E j \in PostsOf(f) : posts[j].outcome = "transport"
        /\ Cardinality(PostsOf(e)) = 1 /\ Cardinality(PostsOf(f)) = 1

Terminated == mpc \in {"returned", "raised"}

\* One KeyboardInterrupt was raised, while run() was in its idle loop.
InterruptedInLoop == sigs = <<"loop">> \/ sigs = <<"sleep">>

\* C8: GPIO.cleanup() is never called twice and run() returns only after it;
\* after a KeyboardInterrupt in the idle loop, the handler and the finally
\* clause have not cleaned up before the cleanup step, and the process ends
\* with run() returned and GPIO.cleanup() called exactly once.
C8_CleanupOnceOnInterrupt ==
    /\ cleanups <= 1
    /\ mpc = "returned" => cleanups = 1
    /\ InterruptedInLoop
         => /\ mpc \in {"except", "finally", "returned"}
            /\ mpc \in {"except", "finally"} => cleanups = 0 /\ detect
            /\ Terminated => mpc = "returned" /\ cleanups = 1 /\ ~detect

\* Interrupted in the idle loop; run() has returned after one cleanup.
C8_Witness ==
    /\ InterruptedInLoop
    /\ mpc = "returned"
    /\ cleanups = 1

\* Positions inside run()'s try block (lines 88-93), the health check included.
TryPcs == {"cc_get", "cc_log", "cc_except", "loop", "sleep"}

\* C9 as stated: after a KeyboardInterrupt raised inside run()'s try block,
\* the health check included, the idle loop is not entered (or is left and
\* not entered again), and the process ends with cleanup done.
C9_Original ==
    (Len(sigs) >= 1 /\ sigs[1] \in TryPcs)
        => /\ mpc \notin {"loop", "sleep"}
           /\ Terminated => cleanups = 1

\* C10 as stated: a process that has ended has called GPIO.cleanup().
C10_Original == Terminated => cleanups >= 1

\* C11: whatever the GET /health gave (status 200, another status, an
\* exception), and as long as no KeyboardInterrupt was raised, the main thread
\* is printing the outcome inside check_connection or is in the idle loop:
\* check_connection returns normally and run() enters the loop.
C11_HealthCheckNeverGates ==
    (health # "none" /\ sigs = <<>>)
        => /\ mpc \in {"cc_log", "cc_except", "loop", "sleep"}
           /\ cleanups = 0 /\ detect

\* The GET raised, and run() is in its idle loop all the same.
C11_Witness ==
    /\ health = "transport"
    /\ sigs = <<>>
    /\ mpc = "sleep"

\* C12: two accepted edges less than 300 ms apart exist only through the
\* unlocked read of last_press_time: each of the two was compared against a
\* value of last_press_time older than the other edge's callback time, that
\* is, before the other callback's store (line 48 / 56) was visible.
C12_RaceByStaleRead ==
    \A e \in Edges : \A f \in Edges :
        (/\ e # f /\ Accepted(e) /\ Accepted(f)
         /\ log[f].t >= log[e].t
         /\ log[f].t - log[e].t < debounce_time)
            => /\ log[f].lpt < log[e].t
               /\ log[e].lpt < log[f].t

\* The race: the two channels' callbacks saw the same stale last_press_time,
\* both passed the comparison and both issued a POST, less than 300 ms apart.
C12_Witness ==
    \E e \in Edges : \E f \in Edges :
        /\ log[e].ch = BUTTON_1 /\ log[f].ch = BUTTON_2
        /\ Accepted(e) /\ Accepted(f)
        /\ log[e].lpt = log[f].lpt
        /\ log[f].t - log[e].t < debounce_time
        /\ log[e].t - log[f].t < debounce_time
        /\ Cardinality(PostsOf(e)) = 1 /\ Cardinality(PostsOf(f)) = 1

\* Some callback is blocked in requests.post (line 69).
PostInFlight == \E c \in Channels : cb[c].pc = "post"

\* C13: while a callback's POST is in flight, every step of the main thread's
\* idle loop and of its shutdown path can be taken: the loop enters and leaves
\* its sleep, and after a KeyboardInterrupt the handler and the cleanup run,
\* none of them waiting for the POST to return.
C13_MainLoopNeverWaits ==
    PostInFlight =>
        /\ (mpc = "loop" => ENABLED Sleep)
        /\ (mpc = "sleep" => ENABLED Wake)
        /\ (mpc = "except" => ENABLED ExceptHandler)
        /\ (mpc \in {"finally", "finally_exc"} => ENABLED Cleanup)

\* run() was interrupted in its idle loop, cleaned up and returned while the
\* POST of a callback was still in flight.
C13_Witness ==
    /\ PostInFlight
    /\ InterruptedInLoop
    /\ mpc = "returned"
    /\ cleanups = 1

\* C14: with the handlers invoked one after the other, the step that rejects
\* an edge changes neither last_press_time nor the POSTs; so the edge after a
\* rejected one is compared against the same last_press_time as the rejected
\* one was, and is accepted when it comes more than 300 ms after it, however
\* close it is to the rejected edge.
C14_RejectedEdgeChangesNothing ==
    /\ [][\A e \in Edges :
            (log[e].verdict = "pending" /\ log'[e].verdict = "rejected")
                => /\ last_press_time' = last_press_time
                   /\ posts' = posts
                   /\ lastAccepted' = lastAccepted]_vars
    /\ [](\A e \in Edges :
            (e > 1 /\ Rejected(e - 1) /\ Decided(e))
                => /\ log[e].lpt = log[e - 1].lpt
                   /\ (log[e].t - log[e - 1].lpt > debounce_time => Accepted(e)))

\* An accepted edge, a suppressed edge less than 300 ms later, and a third
\* edge less than 300 ms after the suppressed one and more than 300 ms after
\* the accepted one: the third is accepted.
C14_Witness ==
    /\ Len(log) >= 3
    /\ Accepted(1) /\ Rejected(2) /\ Accepted(3)
    /\ log[2].t - log[1].t < debounce_time
    /\ log[3].t - log[2].t < debounce_time
    /\ log[3].t - log[1].t > debounce_time
    /\ log[3].lpt = log[1].t
    /\ Done(3)

\* The POST of edge e came back as a transport failure.
Failed(e) == \E i \in PostsOf(e) : posts[i].outcome = "transport"

\* C15: with the handlers invoked one after the other, last_press_time holds
\* the edge's callback time when its POST is issued, no step of
\* send_button_press (issuing the POST, its return with any outcome) changes
\* last_press_time, and an edge on either channel at most 300 ms after an
\* edge whose POST failed is suppressed.
C15_NoRollback ==
    /\ [][posts' # posts => last_press_time' = last_press_time]_vars
    /\ [](\A i \in Posts : last_press_time >= log[posts[i].edge].t)
    /\ [](\A e \in Edges : \A f \in Edges :
            (/\ e < f /\ Failed(e) /\ Decided(f)
             /\ log[f].t - log[e].t <= debounce_time)
                => Rejected(f) /\ PostsOf(f) = {})

\* The POST of an edge failed at the transport level, and an edge on the other
\* channel, less than 300 ms later and after the failure, was suppressed.
C15_Witness ==
    \E e \in Edges : \E f \in Edges :
        /\ e < f /\ Failed(e) /\ log[e].ch # log[f].ch
        /\ log[f].t > log[e].t
        /\ log[f].t - log[e].t < debounce_time
        /\ Rejected(f) /\ Done(f)
        /\ last_press_time = log[e].t

\* C16 as stated: in every interleaving of the two channels' callbacks
\* last_press_time never decreases, and when no callback is running it is the
\* sentinel or the callback time of the latest accepted edge.
C16_Original ==
    /\ [][last_press_time' >= last_press_time]_vars
    /\ []((AllIdle /\ last_press_time # Sentinel) => last_press_time = lastAccepted)

\* Main-thread positions before check_connection has returned.
BeforeLoopPcs == {"main", "init", "run", "cc_get", "cc_log", "cc_except"}

\* C17 as stated: an edge whose callback ran its comparison before or during
\* the health check, no edge having been accepted before it, is accepted.
C17_Original ==
    \A e \in Edges :
        (/\ mpc \in BeforeLoopPcs
         /\ Decided(e)
         /\ \A f \in Edges : f # e => ~Accepted(f))
            => Accepted(e)

=============================================================================
